---- MODULE Spec2Model ----
(***************************************************************************)
(* Model of replace_images.py: a reference tree of images is indexed by    *)
(* lowercased file name and by normalized stem, every image directly       *)
(* inside a subfolder of the target tree is matched against the index by   *)
(* four tiers, backed up and overwritten.                                  *)
(*                                                                         *)
(* File names and stems are sequences of one-character strings.  A path    *)
(* is a sequence of components relative to its root.                       *)
(***************************************************************************)
EXTENDS Integers, Sequences, FiniteSets, TLC

\* ------------------------------------------------------------------------
\* Characters and Python string primitives
\* ------------------------------------------------------------------------

\* The characters of the model in code-point order.
Chars ==
  << " ", "!", "-", ".", "0", "1", "A", "B", "C", "G", "J", "P", "_",
     "a", "b", "c", "d", "e", "f", "g", "i", "j", "m", "n", "o", "p",
     "s", "t", "v", "w", "x" >>

Ord(c) == CHOOSE i \in 1..Len(Chars) : Chars[i] = c

\* str.lower on one character
LowerChar(c) ==
  CASE c = "A" -> "a" [] c = "B" -> "b" [] c = "C" -> "c"
    [] c = "G" -> "g" [] c = "J" -> "j" [] c = "P" -> "p"
    [] OTHER -> c

\* str.lower
lower(s) == [i \in 1..Len(s) |-> LowerChar(s[i])]

\* s[lo:hi] with 1-based inclusive bounds
Slice(s, lo, hi) == [i \in 1..(hi - lo + 1) |-> s[lo + i - 1]]

\* str.endswith(suffix)
EndsWith(s, suf) ==
  /\ Len(suf) <= Len(s)
  /\ Slice(s, Len(s) - Len(suf) + 1, Len(s)) = suf

\* a substring test that misses the empty string
Contains_nonempty(x, y) ==
  /\ x # << >>
  /\ \E i \in 1..(Len(y) - Len(x) + 1) : Slice(y, i, i + Len(x) - 1) = x

\* Python's  x in y  on strings (substring test)
Contains(x, y) ==
  \E i \in 1..(Len(y) - Len(x) + 1) : Slice(y, i, i + Len(x) - 1) = x

\* Python's  x < y  on strings: code-point lexicographic order
RECURSIVE StrLess(_, _)
StrLess(x, y) ==
  IF x = << >> THEN y # << >>
  ELSE IF y = << >> THEN FALSE
  ELSE IF x[1] # y[1] THEN Ord(x[1]) < Ord(y[1])
  ELSE StrLess(Tail(x), Tail(y))

\* sorted() of a set of strings
RECURSIVE sorted(_)
sorted(S) ==
  IF S = {} THEN << >>
  ELSE LET m == CHOOSE x \in S : \A y \in S \ {x} : StrLess(x, y)
       IN  << m >> \o sorted(S \ {m})

IMAGE_EXTS ==
  << << ".", "j", "p", "g" >>, << ".", "j", "p", "e", "g" >>,
     << ".", "p", "n", "g" >>, << ".", "g", "i", "f" >>,
     << ".", "w", "e", "b", "p" >>, << ".", "s", "v", "g" >>,
     << ".", "b", "m", "p" >>, << ".", "i", "c", "o" >> >>

\* f.lower().endswith(IMAGE_EXTS)
IsImage(f) == \E k \in 1..Len(IMAGE_EXTS) : EndsWith(lower(f), IMAGE_EXTS[k])

\* position of the last "." of s, 0 when there is none
LastDot(s) ==
  IF \E i \in 1..Len(s) : s[i] = "."
  THEN CHOOSE i \in 1..Len(s) :
         s[i] = "." /\ \A j \in (i + 1)..Len(s) : s[j] # "."
  ELSE 0

\* os.path.splitext(basename)[0]: the extension starts at the last dot,
\* unless only dots precede it
splitext0(s) ==
  LET d == LastDot(s)
  IN  IF d > 1 /\ \E i \in 1..(d - 1) : s[i] # "."
      THEN Slice(s, 1, d - 1)
      ELSE s

\* ------------------------------------------------------------------------
\* normalize_stem
\* ------------------------------------------------------------------------

IsSpace(c) == c = " "
IsSepChar(c) == c = "_" \/ IsSpace(c)
IsKept(c) == c \in { "a", "b", "c", "d", "e", "f", "g", "i", "j", "m", "n",
                     "o", "p", "s", "t", "v", "w", "x", "0", "1", "-" }

\* str.strip()
RECURSIVE LStrip(_)
LStrip(s) == IF s # << >> /\ IsSpace(s[1]) THEN LStrip(Tail(s)) ELSE s

RECURSIVE RStrip(_)
RStrip(s) ==
  IF s # << >> /\ IsSpace(s[Len(s)]) THEN RStrip(Slice(s, 1, Len(s) - 1))
  ELSE s

strip(s) == RStrip(LStrip(s))

\* re.sub(r'[_\s]+', '-', s)
RECURSIVE SubSep(_)
SubSep(s) ==
  IF s = << >> THEN << >>
  ELSE IF IsSepChar(s[1])
       THEN IF Len(s) > 1 /\ IsSepChar(s[2]) THEN SubSep(Tail(s))
            ELSE << "-" >> \o SubSep(Tail(s))
       ELSE << s[1] >> \o SubSep(Tail(s))

\* re.sub(r'[^a-z0-9\-]', '', s)
KeepOnly(s) == SelectSeq(s, IsKept)

\* re.sub(r'-{2,}', '-', s)
RECURSIVE Collapse(_)
Collapse(s) ==
  IF s = << >> THEN << >>
  ELSE IF s[1] = "-" /\ Len(s) > 1 /\ s[2] = "-" THEN Collapse(Tail(s))
  ELSE << s[1] >> \o Collapse(Tail(s))

normalize_stem(s) == Collapse(KeepOnly(SubSep(strip(lower(s)))))

\* ------------------------------------------------------------------------
\* difflib.SequenceMatcher and difflib.get_close_matches, as called with
\* no junk predicate on stems shorter than 200 characters (below that
\* length the automatic junk heuristic never applies)
\* ------------------------------------------------------------------------

\* length of the common run of a and b that starts at a[i], b[j]
RECURSIVE RunLen(_, _, _, _, _, _)
RunLen(a, b, i, j, ahi, bhi) ==
  IF i <= ahi /\ j <= bhi /\ a[i] = b[j]
  THEN 1 + RunLen(a, b, i + 1, j + 1, ahi, bhi)
  ELSE 0

SetMax(S) == CHOOSE x \in S : \A y \in S : y <= x
SetMin(S) == CHOOSE x \in S : \A y \in S : x <= y

\* SequenceMatcher.find_longest_match on a[alo..ahi], b[blo..bhi]: the
\* longest common block, the one starting earliest in a, then earliest in
\* b; << alo, blo, 0 >> when the two share no element
find_longest_match(a, b, alo, ahi, blo, bhi) ==
  LET runs == { << i, j, RunLen(a, b, i, j, ahi, bhi) >> :
                  i \in alo..ahi, j \in blo..bhi }
      k == SetMax({ r[3] : r \in runs })
      i == SetMin({ r[1] : r \in { q \in runs : q[3] = k } })
      j == SetMin({ r[2] : r \in { q \in runs : q[3] = k /\ q[1] = i } })
  IN  IF k = 0 THEN << alo, blo, 0 >> ELSE << i, j, k >>

\* sum of the sizes of SequenceMatcher.get_matching_blocks
RECURSIVE MatchCount(_, _, _, _, _, _)
MatchCount(a, b, alo, ahi, blo, bhi) ==
  IF alo > ahi \/ blo > bhi THEN 0
  ELSE LET m == find_longest_match(a, b, alo, ahi, blo, bhi)
       IN  IF m[3] = 0 THEN 0
           ELSE m[3]
                + MatchCount(a, b, alo, m[1] - 1, blo, m[2] - 1)
                + MatchCount(a, b, m[1] + m[3], ahi, m[2] + m[3], bhi)

Min(x, y) == IF x <= y THEN x ELSE y

CountOf(s, c) == Cardinality({i \in 1..Len(s) : s[i] = c})

\* number of elements the two sequences share as multisets (quick_ratio)
QuickCount(a, b) ==
  LET RECURSIVE Sum(_)
      Sum(S) == IF S = {} THEN 0
                ELSE LET c == CHOOSE x \in S : TRUE
                     IN  Min(CountOf(a, c), CountOf(b, c)) + Sum(S \ {c})
  IN  Sum({a[i] : i \in 1..Len(a)})

\* FUZZY_CUTOFF = 0.78 as the fraction FUZZY_CUTOFF_NUM / FUZZY_CUTOFF_DEN
FUZZY_CUTOFF_NUM == 78
FUZZY_CUTOFF_DEN == 100

\* the cutoff test with > for >=
AboveCutoff(matches, length) ==
  IF length = 0 THEN FUZZY_CUTOFF_NUM < FUZZY_CUTOFF_DEN
  ELSE 2 * matches * FUZZY_CUTOFF_DEN > FUZZY_CUTOFF_NUM * length

\* _calculate_ratio(matches, length) >= cutoff.  The quotient
\* 2.0 * matches / length is one correctly rounded division, and no
\* fraction with a denominator below 200 + 200 lies within a rounding
\* error of 0.78 without being equal to it, so the comparison of the
\* doubles is the comparison of the fractions.
AtLeastCutoff(matches, length) ==
  IF length = 0 THEN FUZZY_CUTOFF_NUM <= FUZZY_CUTOFF_DEN
  ELSE 2 * matches * FUZZY_CUTOFF_DEN >= FUZZY_CUTOFF_NUM * length

\* SequenceMatcher(None, a, b).ratio() as matches over length
ratio(a, b) == << MatchCount(a, b, 1, Len(a), 1, Len(b)), Len(a) + Len(b) >>

\* r1 < r2 for two ratios; a ratio over length 0 is 1.0
RatioLess(r1, r2) ==
  LET n1 == IF r1[2] = 0 THEN 1 ELSE 2 * r1[1]
      d1 == IF r1[2] = 0 THEN 1 ELSE r1[2]
      n2 == IF r2[2] = 0 THEN 1 ELSE 2 * r2[1]
      d2 == IF r2[2] = 0 THEN 1 ELSE r2[2]
  IN  n1 * d2 < n2 * d1

\* the three tests of get_close_matches on a possibility x whose ratio
\* with word is score: real_quick_ratio, quick_ratio and ratio
PassesCutoff(word, x, score) ==
  /\ AtLeastCutoff(Min(Len(x), Len(word)), Len(x) + Len(word))
  /\ AtLeastCutoff(QuickCount(x, word), Len(x) + Len(word))
  /\ AtLeastCutoff(score[1], score[2])

\* (sx, x) < (sy, y) as Python compares the (score, possibility) tuples
ScoredLess(sx, x, sy, y) ==
  \/ RatioLess(sx, sy)
  \/ /\ ~RatioLess(sy, sx)
     /\ StrLess(x, y)

\* a selection by score alone, the first of the best possibilities winning
get_close_matches_first(word, possibilities) ==
  LET score == [i \in 1..Len(possibilities) |-> ratio(possibilities[i], word)]
      good == { i \in 1..Len(possibilities) :
                  PassesCutoff(word, possibilities[i], score[i]) }
  IN  IF good = {} THEN << >>
      ELSE LET best == CHOOSE i \in good :
                         \A j \in good \ {i} :
                           \/ RatioLess(score[j], score[i])
                           \/ ~RatioLess(score[i], score[j]) /\ i < j
           IN  << possibilities[best] >>

\* difflib.get_close_matches(word, possibilities, n=1, cutoff=FUZZY_CUTOFF):
\* heapq.nlargest(1, result) is max(result) over the (score, x) pairs
get_close_matches(word, possibilities) ==
  LET score == [i \in 1..Len(possibilities) |-> ratio(possibilities[i], word)]
      good == { i \in 1..Len(possibilities) :
                  PassesCutoff(word, possibilities[i], score[i]) }
  IN  IF good = {} THEN << >>
      ELSE LET best == CHOOSE i \in good :
                         \A j \in good \ {i} :
                           ScoredLess(score[j], possibilities[j],
                                      score[i], possibilities[i])
           IN  << possibilities[best] >>

\* ------------------------------------------------------------------------
\* The index and the matcher
\* ------------------------------------------------------------------------

basename(path) == path[Len(path)]

\* by_fullname: a dictionary, lowercased basename -> first path seen
RECURSIVE BuildFullname(_, _)
BuildFullname(files, acc) ==
  IF files = << >> THEN acc
  ELSE LET key == lower(basename(Head(files)))
       IN  BuildFullname(Tail(files),
             IF key \in DOMAIN acc THEN acc
             ELSE [k \in DOMAIN acc \cup {key} |->
                     IF k = key THEN Head(files) ELSE acc[k]])

\* by_stem: a dictionary in insertion order, as a sequence of entries
\* [key |-> normalized stem, paths |-> the paths in append order]
StemKeys(d) == [i \in 1..Len(d) |-> d[i].key]

HasKey(d, k) == \E i \in 1..Len(d) : d[i].key = k

Lookup(d, k) == d[CHOOSE i \in 1..Len(d) : d[i].key = k].paths

RECURSIVE BuildStem(_, _)
BuildStem(files, acc) ==
  IF files = << >> THEN acc
  ELSE LET norm == normalize_stem(splitext0(basename(Head(files))))
       IN  BuildStem(Tail(files),
             IF HasKey(acc, norm)
             THEN [i \in 1..Len(acc) |->
                     IF acc[i].key = norm
                     THEN [acc[i] EXCEPT !.paths = Append(@, Head(files))]
                     ELSE acc[i]]
             ELSE Append(acc, [key |-> norm, paths |-> << Head(files) >>]))

\* chosen_src is None
None == << >>

\* the first entry of by_stem that contains tnorm or is contained in it
PartialHits(tnorm, d) ==
  {i \in 1..Len(d) : Contains(tnorm, d[i].key) \/ Contains(d[i].key, tnorm)}

\* a scan that keeps the last hit instead of stopping at the first
LastOf(S) == CHOOSE i \in S : \A j \in S : j <= i

FirstOf(S) == CHOOSE i \in S : \A j \in S : i <= j

\* the tiers with the stem lookup tried before the exact file name
Match_stem_first(fname, fullname, stem) ==
  LET tnorm == normalize_stem(splitext0(fname))
      candidates == get_close_matches(tnorm, StemKeys(stem))
      hits == PartialHits(tnorm, stem)
  IN  IF HasKey(stem, tnorm)
      THEN [src |-> Lookup(stem, tnorm)[1], method |-> << "stem_match" >>]
      ELSE IF lower(fname) \in DOMAIN fullname
      THEN [src |-> fullname[lower(fname)], method |-> << "exact_filename" >>]
      ELSE IF candidates # << >>
      THEN [src |-> Lookup(stem, candidates[1])[1],
            method |-> << "fuzzy_match", candidates[1] >>]
      ELSE IF hits # {}
      THEN [src |-> stem[FirstOf(hits)].paths[1],
            method |-> << "partial", stem[FirstOf(hits)].key >>]
      ELSE [src |-> None, method |-> None]

\* the four tiers of the main loop: [src, method] for a target file name
Match(fname, fullname, stem) ==
  LET tnorm == normalize_stem(splitext0(fname))
      candidates == get_close_matches(tnorm, StemKeys(stem))
      hits == PartialHits(tnorm, stem)
  IN  IF lower(fname) \in DOMAIN fullname
      THEN [src |-> fullname[lower(fname)], method |-> << "exact_filename" >>]
      ELSE IF HasKey(stem, tnorm)
      THEN [src |-> Lookup(stem, tnorm)[1], method |-> << "stem_match" >>]
      ELSE IF candidates # << >>
      THEN [src |-> Lookup(stem, candidates[1])[1],
            method |-> << "fuzzy_match", candidates[1] >>]
      ELSE IF hits # {}
      THEN [src |-> stem[FirstOf(hits)].paths[1],
            method |-> << "partial", stem[FirstOf(hits)].key >>]
      ELSE [src |-> None, method |-> None]

\* ------------------------------------------------------------------------
\* Inputs: the reference tree in walk order and the target tree
\* ------------------------------------------------------------------------

JPG == << ".", "j", "p", "g" >>
PNG == << ".", "p", "n", "g" >>

\* the longest reference walk and the most images in the target tree
MaxRef == 2
MaxTargets == 3

\* paths of reference files, relative to WEBSITE_FOLDER
RefPaths ==
  { << << "a" >> \o JPG >>,
    << << "d" >>, << "A", ".", "J", "P", "G" >> >>,
    << << "a", "b", "c" >> \o PNG >>,
    << << "a", "_", "b" >> \o JPG >>,
    << << "!" >> \o JPG >>,
    << << "a", ".", "t", "x", "t" >> >> }

D1 == << "d", "0" >>
D2 == << "d", "1" >>

\* paths of target images, relative to ASSETS_IMAGES
TargetPaths ==
  { << D1, << "a" >> \o JPG >>,
    << D1, << "a", "b", ".", "g", "i", "f" >> >>,
    << D1, << "A", " ", "B" >> \o JPG >>,
    << D2, << "b" >> \o PNG >>,
    << D2, << "!", "!" >> \o PNG >> }

\* c repeated n times
RECURSIVE Rep(_, _)
Rep(c, n) == IF n = 0 THEN << >> ELSE << c >> \o Rep(c, n - 1)

Letters ==
  << "a", "b", "c", "d", "e", "f", "g", "i", "j", "m", "n", "o", "p",
     "s", "t", "v", "w", "x" >>

\* the first n characters of Letters repeated over and over
Cycle(n) == [i \in 1..n |-> Letters[((i - 1) % Len(Letters)) + 1]]

\* two stems of 50 characters that share their first 39 and nothing else:
\* their similarity ratio is 2 * 39 / 100, the cutoff itself
LongKey == Cycle(39) \o Rep("0", 11)
LongStem == Cycle(39) \o Rep("1", 11)

\* reference files and target images that exercise the fuzzy tier
FuzzyRefPaths ==
  { << << "a", "b", "c", "d", "e", "f", "g" >> \o JPG >>,
    << << "a", "b", "c", "d", "e", "f", "i" >> \o PNG >>,
    << LongKey \o JPG >> }

FuzzyTargetPaths ==
  { << D1, << "a", "b", "c", "d", "e", "f", ".", "g", "i", "f" >> >>,
    << D1, << "a", "b", "c", "d", "e", "f", "g", "g" >> \o JPG >>,
    << D2, LongStem \o PNG >>,
    << D2, << "e", "f", "g" >> \o PNG >> }

\* entries of the target tree the loop has to skip: a file directly under
\* the root, a file that is no image, and a directory inside a subfolder
RootFile == << << "x" >> \o JPG >>
TextFile == << D1, << "a", ".", "t", "x", "t" >> >>
NestedDir == << D2, << "n" >> \o JPG >>

\* the sequences of distinct elements of S of length at most n
RECURSIVE SeqsUpTo(_, _)
SeqsUpTo(S, n) ==
  IF n = 0 THEN { << >> }
  ELSE LET shorter == SeqsUpTo(S, n - 1)
           longest == { q \in shorter : Len(q) = n - 1 }
       IN  shorter \cup
           { Append(qx[1], qx[2]) :
               qx \in { qx \in longest \X S :
                          \A i \in 1..Len(qx[1]) : qx[1][i] # qx[2] } }

\* os.walk is top-down: the files of the root come before those of its
\* subdirectories
WalkOrdered(q) ==
  \A i, j \in 1..Len(q) : i < j => Len(q[i]) <= Len(q[j])

OldContent(path) == << "old", path >>
SrcContent(path) == << "src", path >>
Partial == << "partial" >>

\* the run-scoped backup directory _backup_<timestamp>
BackupDir == << "_", "b" >>

\* ------------------------------------------------------------------------
\* State
\* ------------------------------------------------------------------------

VARIABLES
  DRY_RUN, MAKE_BACKUP,   \* the two safety flags of the configuration
  reference,              \* files of the reference tree in os.walk order
  files, dirs,            \* the target tree: file path -> content, directories
  files0, dirs0,          \* the target tree before the run
  pc,
  website_files, by_fullname, by_stem, backup_root,
  subs, sub, fnames,      \* rest of the outer listing, subfolder, rest of its listing
  target_path, chosen_src, method,
  replacements, unmatched,
  summary                 \* what the summary printed, None before it

vars == << DRY_RUN, MAKE_BACKUP, reference, files, dirs, files0, dirs0, pc,
           website_files, by_fullname, by_stem, backup_root, subs, sub, fnames,
           target_path, chosen_src, method, replacements, unmatched, summary >>

config == << DRY_RUN, MAKE_BACKUP, reference, files0, dirs0 >>
index == << website_files, by_fullname, by_stem, backup_root >>
decision == << target_path, chosen_src, method >>

EmptyDict == [k \in {} |-> None]

InitTree(targets) ==
  [p \in targets \cup {RootFile, TextFile} |-> OldContent(p)]

\* the state before the run, for a reference tree drawn from refPaths and
\* target images drawn from targetPaths
InitWith(refPaths, targetPaths) ==
  /\ DRY_RUN \in BOOLEAN
  /\ MAKE_BACKUP \in BOOLEAN
  /\ reference \in SeqsUpTo(refPaths, MaxRef)
  /\ WalkOrdered(reference)
  /\ \E targets \in SUBSET targetPaths :
       /\ Cardinality(targets) <= MaxTargets
       /\ files = InitTree(targets)
  /\ dirs = { << D1 >>, << D2 >>, NestedDir }
  /\ files0 = files
  /\ dirs0 = dirs
  /\ pc = "start"
  /\ website_files = << >>
  /\ by_fullname = EmptyDict
  /\ by_stem = << >>
  /\ backup_root = None
  /\ subs = << >>
  /\ sub = None
  /\ fnames = << >>
  /\ target_path = None
  /\ chosen_src = None
  /\ method = None
  /\ replacements = << >>
  /\ unmatched = << >>
  /\ summary = None

Init == InitWith(RefPaths, TargetPaths)

InitFuzzy == InitWith(FuzzyRefPaths, FuzzyTargetPaths)

\* ------------------------------------------------------------------------
\* Filesystem primitives on the target tree
\* ------------------------------------------------------------------------

Entries(fs, ds) == DOMAIN fs \cup ds

\* os.listdir of the directory at path dir (<< >> is ASSETS_IMAGES)
listdir(fs, ds, dir) ==
  { p[Len(dir) + 1] :
      p \in { q \in Entries(fs, ds) :
                Len(q) > Len(dir) /\ Slice(q, 1, Len(dir)) = dir } }

isdir(ds, path) == path \in ds
isfile(fs, path) == path \in DOMAIN fs

\* shutil.copy2 onto dst, or any other write of content to dst
WriteFile(fs, dst, content) ==
  [p \in DOMAIN fs \cup {dst} |-> IF p = dst THEN content ELSE fs[p]]

\* os.makedirs(path, exist_ok=True)
makedirs(ds, path) == ds \cup { Slice(path, 1, k) : k \in 1..Len(path) }

dirname(path) == Slice(path, 1, Len(path) - 1)

\* a gathering that takes every file for an image
IsImagePath_any(path) == TRUE

IsImagePath(path) == IsImage(basename(path))

\* ------------------------------------------------------------------------
\* The run
\* ------------------------------------------------------------------------

\* lines 38-43: gather the images of the reference tree
Gather ==
  /\ pc = "start"
  /\ website_files' = SelectSeq(reference, IsImagePath)
  /\ pc' = "gathered"
  /\ UNCHANGED << config, files, dirs, by_fullname, by_stem, backup_root,
                  subs, sub, fnames, decision, replacements, unmatched,
                  summary >>

\* lines 45-46: SystemExit when no image was found
Abort ==
  /\ pc = "gathered"
  /\ website_files = << >>
  /\ pc' = "aborted"
  /\ UNCHANGED << config, files, dirs, index, subs, sub, fnames, decision,
                  replacements, unmatched, summary >>

\* lines 48-68: build the lookup maps, name the backup root, list the
\* target root
BuildIndex ==
  /\ pc = "gathered"
  /\ website_files # << >>
  /\ by_fullname' = BuildFullname(website_files, EmptyDict)
  /\ by_stem' = BuildStem(website_files, << >>)
  /\ backup_root' = IF MAKE_BACKUP THEN << BackupDir >> ELSE None
  /\ subs' = sorted(listdir(files, dirs, << >>))
  /\ pc' = "outer"
  /\ UNCHANGED << config, files, dirs, website_files, sub, fnames, decision,
                  replacements, unmatched, summary >>

\* lines 68-71: an entry of the target root that is no directory
SkipNonDir ==
  /\ pc = "outer"
  /\ subs # << >>
  /\ ~isdir(dirs, << Head(subs) >>)
  /\ subs' = Tail(subs)
  /\ sub' = Head(subs)
  /\ UNCHANGED << config, files, dirs, pc, index, fnames, decision,
                  replacements, unmatched, summary >>

\* lines 68-73: enter the next subfolder and list it
EnterSub ==
  /\ pc = "outer"
  /\ subs # << >>
  /\ isdir(dirs, << Head(subs) >>)
  /\ subs' = Tail(subs)
  /\ sub' = Head(subs)
  /\ fnames' = sorted(listdir(files, dirs, << Head(subs) >>))
  /\ pc' = "inner"
  /\ UNCHANGED << config, files, dirs, index, decision, replacements,
                  unmatched, summary >>

\* the inner loop is exhausted
LeaveSub ==
  /\ pc = "inner"
  /\ fnames = << >>
  /\ pc' = "outer"
  /\ UNCHANGED << config, files, dirs, index, subs, sub, fnames, decision,
                  replacements, unmatched, summary >>

\* lines 74-79: an entry that is no file or no image
SkipEntry ==
  /\ pc = "inner"
  /\ fnames # << >>
  /\ \/ ~isfile(files, << sub, Head(fnames) >>)
     \/ ~IsImage(Head(fnames))
  /\ fnames' = Tail(fnames)
  /\ UNCHANGED << config, files, dirs, pc, index, subs, sub, decision,
                  replacements, unmatched, summary >>

\* lines 81-114: no tier matched
NoMatch ==
  /\ pc = "inner"
  /\ fnames # << >>
  /\ isfile(files, << sub, Head(fnames) >>)
  /\ IsImage(Head(fnames))
  /\ Match(Head(fnames), by_fullname, by_stem).src = None
  /\ unmatched' = Append(unmatched, << sub, Head(fnames) >>)
  /\ fnames' = Tail(fnames)
  /\ target_path' = << sub, Head(fnames) >>
  /\ chosen_src' = None
  /\ method' = None
  /\ UNCHANGED << config, files, dirs, pc, index, subs, sub, replacements,
                  summary >>

\* lines 81-110: some tier matched
Decide ==
  /\ pc = "inner"
  /\ fnames # << >>
  /\ isfile(files, << sub, Head(fnames) >>)
  /\ IsImage(Head(fnames))
  /\ LET m == Match(Head(fnames), by_fullname, by_stem)
     IN  /\ m.src # None
         /\ chosen_src' = m.src
         /\ method' = m.method
  /\ target_path' = << sub, Head(fnames) >>
  /\ fnames' = Tail(fnames)
  /\ pc' = "backup"
  /\ UNCHANGED << config, files, dirs, index, subs, sub, replacements,
                  unmatched, summary >>

DoBackup == MAKE_BACKUP /\ ~DRY_RUN

\* a backup path that drops the subfolder
backup_target_flat == backup_root \o << basename(target_path) >>

backup_target == backup_root \o target_path

\* line 117: no backup is due
SkipBackup ==
  /\ pc = "backup"
  /\ ~DoBackup
  /\ pc' = "replace"
  /\ UNCHANGED << config, files, dirs, index, subs, sub, fnames, decision,
                  replacements, unmatched, summary >>

\* lines 117-120: the backup copy succeeds
BackupOk ==
  /\ pc = "backup"
  /\ DoBackup
  /\ dirs' = makedirs(dirs, dirname(backup_target))
  /\ files' = WriteFile(files, backup_target, files[target_path])
  /\ pc' = "replace"
  /\ UNCHANGED << config, index, subs, sub, fnames, decision, replacements,
                  unmatched, summary >>

\* a failed backup that is swallowed: the run goes on to the overwrite
BackupFail_ignored ==
  /\ pc = "backup"
  /\ DoBackup
  /\ \/ UNCHANGED << files, dirs >>
     \/ /\ dirs' = makedirs(dirs, dirname(backup_target))
        /\ UNCHANGED files
     \/ /\ dirs' = makedirs(dirs, dirname(backup_target))
        /\ files' = WriteFile(files, backup_target, Partial)
  /\ pc' = "replace"
  /\ UNCHANGED << config, index, subs, sub, fnames, decision, replacements,
                  unmatched, summary >>

\* lines 119-120: os.makedirs or shutil.copy2 raises; the directories may
\* or may not exist by then and the copy may be incomplete
BackupFail ==
  /\ pc = "backup"
  /\ DoBackup
  /\ \/ UNCHANGED << files, dirs >>
     \/ /\ dirs' = makedirs(dirs, dirname(backup_target))
        /\ UNCHANGED files
     \/ /\ dirs' = makedirs(dirs, dirname(backup_target))
        /\ files' = WriteFile(files, backup_target, Partial)
  /\ pc' = "crashed"
  /\ UNCHANGED << config, index, subs, sub, fnames, decision, replacements,
                  unmatched, summary >>

\* lines 122-126 in a dry run: only record
DryRecord ==
  /\ pc = "replace"
  /\ DRY_RUN
  /\ replacements' = Append(replacements, << target_path, chosen_src, method >>)
  /\ pc' = "inner"
  /\ UNCHANGED << config, files, dirs, index, subs, sub, fnames, decision,
                  unmatched, summary >>

\* an overwrite that is not guarded by the dry-run flag
ReplaceOk_unguarded ==
  /\ pc = "replace"
  /\ files' = WriteFile(files, target_path, SrcContent(chosen_src))
  /\ replacements' = Append(replacements, << target_path, chosen_src, method >>)
  /\ pc' = "inner"
  /\ UNCHANGED << config, dirs, index, subs, sub, fnames, decision,
                  unmatched, summary >>

\* lines 122-126: the source is copied over the target and recorded
ReplaceOk ==
  /\ pc = "replace"
  /\ ~DRY_RUN
  /\ files' = WriteFile(files, target_path, SrcContent(chosen_src))
  /\ replacements' = Append(replacements, << target_path, chosen_src, method >>)
  /\ pc' = "inner"
  /\ UNCHANGED << config, dirs, index, subs, sub, fnames, decision,
                  unmatched, summary >>

\* line 123: shutil.copy2 raises; the target may be left incomplete
ReplaceFail ==
  /\ pc = "replace"
  /\ ~DRY_RUN
  /\ \/ UNCHANGED files
     \/ files' = WriteFile(files, target_path, Partial)
  /\ pc' = "crashed"
  /\ UNCHANGED << config, dirs, index, subs, sub, fnames, decision,
                  replacements, unmatched, summary >>

\* unmatched[:20]
FIRST_SHOWN == 20

Prefix(s, n) == [i \in 1..Min(Len(s), n) |-> s[i]]

\* lines 143-144: the backup line of the summary
BackupLine ==
  IF MAKE_BACKUP
  THEN IF backup_root # None
       THEN << "Backups are in", backup_root >>
       ELSE << "No backups created." >>
  ELSE None

\* lines 128-145: the summary
Summary ==
  /\ pc = "outer"
  /\ subs = << >>
  /\ summary' = [scanned |-> Len(website_files),
                 replacements |-> replacements,
                 unmatched |-> Prefix(unmatched, FIRST_SHOWN),
                 backups |-> BackupLine]
  /\ pc' = "done"
  /\ UNCHANGED << config, files, dirs, index, subs, sub, fnames, decision,
                  replacements, unmatched >>

Next ==
  \/ Gather
  \/ Abort
  \/ BuildIndex
  \/ SkipNonDir
  \/ EnterSub
  \/ LeaveSub
  \/ SkipEntry
  \/ NoMatch
  \/ Decide
  \/ SkipBackup
  \/ BackupOk
  \/ BackupFail
  \/ DryRecord
  \/ ReplaceOk
  \/ ReplaceFail
  \/ Summary

Spec == Init /\ [][Next]_vars

\* the same run on the inputs that exercise the fuzzy tier
SpecFuzzy == InitFuzzy /\ [][Next]_vars

\* ------------------------------------------------------------------------
\* Properties
\* ------------------------------------------------------------------------

TargetOf(r) == r[1]
SourceOf(r) == r[2]
MethodOf(r) == r[3]

\* normalized stem of a target path
Tnorm(t) == normalize_stem(splitext0(basename(t)))

\* every decision of the matcher so far: the recorded replacements, the
\* unmatched targets and the target being processed
Decisions ==
  { replacements[k] : k \in 1..Len(replacements) }
    \cup { << unmatched[k], None, None >> : k \in 1..Len(unmatched) }
    \cup (IF target_path = None THEN {}
          ELSE { << target_path, chosen_src, method >> })

ExactHit(t) == lower(basename(t)) \in DOMAIN by_fullname
StemHit(t) == HasKey(by_stem, Tnorm(t))

\* the similarity ratio of key number i and the target's stem reaches the cutoff
RatioOf(i, t) == ratio(by_stem[i].key, Tnorm(t))
Reaches(i, t) == AtLeastCutoff(RatioOf(i, t)[1], RatioOf(i, t)[2])
FuzzyHits(t) == { i \in 1..Len(by_stem) : Reaches(i, t) }

\* key number i contains the target's stem or is contained in it
Contained(i, t) ==
  \/ Contains(Tnorm(t), by_stem[i].key)
  \/ Contains(by_stem[i].key, Tnorm(t))
ContainHits(t) == { i \in 1..Len(by_stem) : Contained(i, t) }

KeyIndex(k) == CHOOSE i \in 1..Len(by_stem) : by_stem[i].key = k

Live == ~DRY_RUN /\ MAKE_BACKUP

BackupOf(t) == << BackupDir >> \o t

\* C1: in a live run with backups that completed, for every recorded
\* replacement the backup of the target, at the mirrored path under the
\* backup root, holds the target's content from before the run, and the
\* target holds the content of its matched source.
C1_BackupFidelity ==
  (pc = "done" /\ Live) =>
    \A k \in 1..Len(replacements) :
      LET t == TargetOf(replacements[k])
      IN  /\ BackupOf(t) \in DOMAIN files
          /\ files[BackupOf(t)] = files0[t]
          /\ files[t] = SrcContent(SourceOf(replacements[k]))

C1_Witness ==
  /\ pc = "done"
  /\ Live
  /\ Len(replacements) >= 2
  /\ TargetOf(replacements[1])[1] # TargetOf(replacements[2])[1]

\* the images of a target tree in processing order
RECURSIVE ImagesIn(_, _, _, _)
ImagesIn(fs, ds, dir, names) ==
  IF names = << >> THEN << >>
  ELSE (IF isfile(fs, << dir, Head(names) >>) /\ IsImage(Head(names))
        THEN << << dir, Head(names) >> >> ELSE << >>)
       \o ImagesIn(fs, ds, dir, Tail(names))

RECURSIVE ImagesUnder(_, _, _)
ImagesUnder(fs, ds, names) ==
  IF names = << >> THEN << >>
  ELSE (IF isdir(ds, << Head(names) >>)
        THEN ImagesIn(fs, ds, Head(names),
                      sorted(listdir(fs, ds, << Head(names) >>)))
        ELSE << >>)
       \o ImagesUnder(fs, ds, Tail(names))

ProcessingOrder == ImagesUnder(files0, dirs0, sorted(listdir(files0, dirs0, << >>)))

\* the matches of the images of the reference tree against a list of targets
RECURSIVE MatchesOf(_, _)
MatchesOf(images, targets) ==
  IF targets = << >> THEN << >>
  ELSE LET m == Match(basename(Head(targets)),
                      BuildFullname(images, EmptyDict),
                      BuildStem(images, << >>))
       IN  (IF m.src = None THEN << >>
            ELSE << << Head(targets), m.src, m.method >> >>)
           \o MatchesOf(images, Tail(targets))

\* C2: a dry run never changes the target tree (no file or directory is
\* created, modified or deleted, the backup root included), and the
\* replacements a completed run records are the same function of the two
\* trees whether the run is dry or live.
C2_DryRunNoOp ==
  /\ DRY_RUN => (files = files0 /\ dirs = dirs0)
  /\ pc = "done" =>
       replacements = MatchesOf(SelectSeq(reference, IsImagePath), ProcessingOrder)

C2_Witness ==
  /\ pc = "done"
  /\ DRY_RUN
  /\ MAKE_BACKUP
  /\ Len(replacements) >= 2

\* a candidate of a later tier that points to another file than src
OtherCandidate(t, src) ==
  \E i \in FuzzyHits(t) \cup ContainHits(t) \cup
           (IF StemHit(t) THEN { KeyIndex(Tnorm(t)) } ELSE {}) :
    by_stem[i].paths[1] # src

\* C3: a target whose lowercased name is a key of the exact-name map is
\* matched by exact_filename to that entry; otherwise a target whose
\* normalized stem is a key of the stem map is matched by stem_match to the
\* first path of that bucket.
C3_ExactThenStem ==
  \A d \in Decisions :
    LET t == TargetOf(d)
    IN  /\ ExactHit(t) =>
             /\ MethodOf(d) = << "exact_filename" >>
             /\ SourceOf(d) = by_fullname[lower(basename(t))]
        /\ (~ExactHit(t) /\ StemHit(t)) =>
             /\ MethodOf(d) = << "stem_match" >>
             /\ SourceOf(d) = Lookup(by_stem, Tnorm(t))[1]

C3_Witness ==
  /\ \E d \in Decisions :
       /\ ExactHit(TargetOf(d))
       /\ MethodOf(d) = << "exact_filename" >>
       /\ OtherCandidate(TargetOf(d), SourceOf(d))
  /\ \E d \in Decisions :
       /\ ~ExactHit(TargetOf(d))
       /\ MethodOf(d) = << "stem_match" >>
       /\ \E i \in ContainHits(TargetOf(d)) : by_stem[i].paths[1] # SourceOf(d)

\* the fuzzy tier is reached for target t
FuzzyReached(t) == ~ExactHit(t) /\ ~StemHit(t)

\* the similarity ratios of the keys of the stem map with the target's stem
Scores(t) == [i \in 1..Len(by_stem) |-> RatioOf(i, t)]

\* the keys whose ratio, among the ratios sc, reaches the cutoff
Passing(sc) == { i \in DOMAIN sc : AtLeastCutoff(sc[i][1], sc[i][2]) }

SameRatio(r1, r2) == ~RatioLess(r1, r2) /\ ~RatioLess(r2, r1)

\* the decision d took key number i in the fuzzy tier
TookFuzzy(d, i) ==
  /\ MethodOf(d) = << "fuzzy_match", by_stem[i].key >>
  /\ SourceOf(d) = by_stem[i].paths[1]

\* C4 as stated: when the fuzzy tier is reached and some key reaches the
\* cutoff, the key taken has the highest ratio, and among the keys of that
\* ratio it is the first in the iteration order of the stem map; the source
\* is the first path of its bucket.
C4_FirstKeyWinsTie ==
  \A d \in Decisions :
    FuzzyReached(TargetOf(d)) =>
      LET sc == Scores(TargetOf(d))
      IN  Passing(sc) # {} =>
            \E i \in Passing(sc) :
              /\ TookFuzzy(d, i)
              /\ \A j \in Passing(sc) :
                   /\ ~RatioLess(sc[i], sc[j])
                   /\ SameRatio(sc[i], sc[j]) => i <= j

\* C4 amended: when the fuzzy tier is reached and some key reaches the
\* cutoff, the key taken has the highest ratio, and among the keys of that
\* ratio it is the greatest in code-point order; the source is the first
\* path of its bucket.
C4_GreatestKeyWinsTie ==
  \A d \in Decisions :
    FuzzyReached(TargetOf(d)) =>
      LET sc == Scores(TargetOf(d))
      IN  Passing(sc) # {} =>
            \E i \in Passing(sc) :
              /\ TookFuzzy(d, i)
              /\ \A j \in Passing(sc) \ {i} :
                   /\ ~RatioLess(sc[i], sc[j])
                   /\ SameRatio(sc[i], sc[j]) =>
                        StrLess(by_stem[j].key, by_stem[i].key)

\* the fuzzy tier took key number i although key number j, of the same
\* ratio, comes first in the stem map
TieAgainstFirst(d) ==
  /\ FuzzyReached(TargetOf(d))
  /\ LET sc == Scores(TargetOf(d))
     IN  \E i, j \in Passing(sc) :
           TookFuzzy(d, i) /\ j < i /\ SameRatio(sc[i], sc[j])

\* the fuzzy tier took key number i for its ratio although key number j,
\* which also reaches the cutoff, is the greater string
RatioBeforeOrder(d) ==
  /\ FuzzyReached(TargetOf(d))
  /\ LET sc == Scores(TargetOf(d))
     IN  \E i, j \in Passing(sc) :
           /\ TookFuzzy(d, i)
           /\ RatioLess(sc[j], sc[i])
           /\ StrLess(by_stem[i].key, by_stem[j].key)

C4_Witness ==
  /\ \E d \in Decisions : TieAgainstFirst(d)
  /\ \E d \in Decisions : RatioBeforeOrder(d)

\* the ratio r is the cutoff exactly
AtCutoff(r) ==
  r[2] > 0 /\ 2 * r[1] * FUZZY_CUTOFF_DEN = FUZZY_CUTOFF_NUM * r[2]

\* the ratio r is below the cutoff
BelowCutoff(r) ==
  r[2] > 0 /\ 2 * r[1] * FUZZY_CUTOFF_DEN < FUZZY_CUTOFF_NUM * r[2]

\* the outcome of the partial-containment tier for decision d
PartialOutcome(d) ==
  IF ContainHits(TargetOf(d)) = {}
  THEN SourceOf(d) = None /\ MethodOf(d) = None
  ELSE \E i \in ContainHits(TargetOf(d)) :
         /\ \A j \in ContainHits(TargetOf(d)) : i <= j
         /\ MethodOf(d) = << "partial", by_stem[i].key >>
         /\ SourceOf(d) = by_stem[i].paths[1]

\* C5: when the fuzzy tier is reached, a key whose ratio 2*M/T equals the
\* cutoff makes the tier match, and when every key's ratio is below the
\* cutoff the decision is that of the partial-containment tier.
C5_CutoffBoundary ==
  \A d \in Decisions :
    FuzzyReached(TargetOf(d)) =>
      LET sc == Scores(TargetOf(d))
      IN  /\ (\E i \in DOMAIN sc : AtCutoff(sc[i])) =>
               \E i \in DOMAIN sc : TookFuzzy(d, i)
          /\ (\A i \in DOMAIN sc : BelowCutoff(sc[i])) => PartialOutcome(d)

\* one target matched by a key whose ratio is the cutoff exactly, another
\* whose keys are all below the cutoff matched by containment
C5_Witness ==
  /\ \E d \in Decisions :
       /\ FuzzyReached(TargetOf(d))
       /\ LET sc == Scores(TargetOf(d))
          IN  \E i \in DOMAIN sc :
                /\ AtCutoff(sc[i])
                /\ TookFuzzy(d, i)
                /\ \A j \in DOMAIN sc \ {i} : BelowCutoff(sc[j])
  /\ \E d \in Decisions :
       /\ FuzzyReached(TargetOf(d))
       /\ LET sc == Scores(TargetOf(d))
          IN  \A i \in DOMAIN sc : BelowCutoff(sc[i])
       /\ MethodOf(d) # None
       /\ MethodOf(d)[1] = "partial"

\* C6: when the exact, stem and fuzzy tiers fail and some key contains the
\* target's stem or is contained in it, the method is partial(<key>) for the
\* first such key in the iteration order of the stem map, and the source is
\* the first path of that key's bucket.
C6_PartialFirstKey ==
  \A d \in Decisions :
    (/\ FuzzyReached(TargetOf(d))
     /\ FuzzyHits(TargetOf(d)) = {}
     /\ ContainHits(TargetOf(d)) # {}) =>
      \E i \in ContainHits(TargetOf(d)) :
        /\ \A j \in ContainHits(TargetOf(d)) : i <= j
        /\ MethodOf(d) = << "partial", by_stem[i].key >>
        /\ SourceOf(d) = by_stem[i].paths[1]

C6_Witness ==
  \E d \in Decisions :
    /\ MethodOf(d) # None
    /\ MethodOf(d)[1] = "partial"
    /\ Cardinality(ContainHits(TargetOf(d))) >= 2
    /\ Tnorm(TargetOf(d)) # << >>
    /\ \E i \in ContainHits(TargetOf(d)) : by_stem[i].paths[1] # SourceOf(d)

NoImageInReference ==
  \A i \in 1..Len(reference) : ~IsImage(basename(reference[i]))

\* C7: when the reference tree holds no image, the run goes from gathering
\* to the fatal exit and nowhere else: the target tree stays as it was, no
\* target is examined and nothing is recorded.
C7_AbortBeforeMutation ==
  NoImageInReference =>
    /\ pc \in { "start", "gathered", "aborted" }
    /\ files = files0
    /\ dirs = dirs0
    /\ target_path = None
    /\ replacements = << >>
    /\ unmatched = << >>
    /\ summary = None
    /\ (pc = "aborted" => ~ENABLED Next)

C7_Witness ==
  /\ pc = "aborted"
  /\ reference # << >>
  /\ \E t \in TargetPaths : t \in DOMAIN files0

IsBackedUp(t) ==
  /\ BackupOf(t) \in DOMAIN files
  /\ files[BackupOf(t)] = files0[t]

Replaced == { TargetOf(replacements[k]) : k \in 1..Len(replacements) }

\* C8: in a live run with backups, a file of the target tree differs from
\* its content before the run only if its backup holds that content; and
\* once a copy has failed the run takes no further step, every replacement
\* recorded before has its new content and its backup, and every other file
\* but the target at hand is as before the run and has no backup.
C8_BackupBeforeOverwrite ==
  Live =>
    /\ \A t \in DOMAIN files0 : files[t] # files0[t] => IsBackedUp(t)
    /\ pc = "crashed" =>
         /\ ~ENABLED Next
         /\ \A k \in 1..Len(replacements) :
              /\ files[TargetOf(replacements[k])] = SrcContent(SourceOf(replacements[k]))
              /\ IsBackedUp(TargetOf(replacements[k]))
         /\ \A t \in DOMAIN files0 \ (Replaced \cup { target_path }) :
              /\ files[t] = files0[t]
              /\ BackupOf(t) \notin DOMAIN files

\* a run that crashed at its second match, with a third image still to come
C8_Witness ==
  /\ Live
  /\ pc = "crashed"
  /\ Len(replacements) = 1
  /\ ~IsBackedUp(target_path)
  /\ \E t \in TargetPaths \cap DOMAIN files0 : t \notin Replaced \cup { target_path }

BackupWritten == \E p \in DOMAIN files : p[1] = BackupDir

\* C9: the summary reports the backup location exactly when at least one
\* backup file was written in the run.
C9_LocationIffBackups ==
  pc = "done" =>
    ((summary.backups # None /\ summary.backups[1] = "Backups are in")
       <=> BackupWritten)

\* C10: a target is unmatched only if its normalized stem is not empty and
\* the stem map has no empty key; a target with an empty normalized stem is
\* matched, by partial containment to the first key when the exact and stem
\* tiers fail; with the empty key in the stem map nothing is unmatched.
C10_EmptyStemAlwaysMatches ==
  /\ \A k \in 1..Len(unmatched) :
       Tnorm(unmatched[k]) # << >> /\ ~HasKey(by_stem, << >>)
  /\ \A d \in Decisions :
       Tnorm(TargetOf(d)) = << >> =>
         /\ SourceOf(d) # None
         /\ FuzzyReached(TargetOf(d)) =>
              /\ MethodOf(d) = << "partial", by_stem[1].key >>
              /\ SourceOf(d) = by_stem[1].paths[1]
  /\ HasKey(by_stem, << >>) => unmatched = << >>

\* a target with an empty normalized stem matched by containment to the
\* first of two keys
C10_Witness ==
  \E d \in Decisions :
    /\ Tnorm(TargetOf(d)) = << >>
    /\ MethodOf(d) # None
    /\ MethodOf(d)[1] = "partial"
    /\ Len(by_stem) >= 2

====
